---- MODULE Spec2Model ----
(***************************************************************************)
(* include-zstd: a proc macro (macro/src/lib.rs) that reads a file at      *)
(* build time, compresses it with zstd and emits the expression            *)
(*   unsafe { <crate>::EmbeddedZstd::<N>::new_unchecked([b1,...,bN]) }     *)
(* and the run-time container EmbeddedZstd<SIZE> (src/lib.rs) with size(), *)
(* the derived comparison, and decompression into Vec<u8> / Box<[u8]>.     *)
(*                                                                         *)
(* Bytes are integers 0..255, strings and paths are sequences of           *)
(* one-character strings.  The zstd encoder and the ruzstd decoder are     *)
(* external crates: they are modelled by a small frame format (magic,      *)
(* raw and RLE blocks with 3-byte headers, a last-block flag) that keeps   *)
(* the contract of the codec: a finished stream is self-terminated,        *)
(* decoding is deterministic, malformed input is an explicit error.        *)
(***************************************************************************)
EXTENDS Integers, Sequences, FiniteSets, TLC

VARIABLES files, site, inv, prev, res, insts, out, shared, thr, bufs

vars == <<files, site, inv, prev, res, insts, out, shared, thr, bufs>>

(***************************************************************************)
(* Bounds of the model.                                                    *)
(***************************************************************************)
\* longest file content
MaxLen == 2
\* number of threads decompressing the same instance
NThreads == 2

\* byte values file contents are drawn from
ByteVals == {7, 255}

RECURSIVE SeqsUpTo(_, _)
SeqsUpTo(S, n) ==
    IF n = 0 THEN {<<>>}
    ELSE LET shorter == SeqsUpTo(S, n - 1)
         IN shorter \cup {Append(s, x) : s \in {t \in shorter : Len(t) = n - 1}, x \in S}

Contents == SeqsUpTo(ByteVals, MaxLen)

(***************************************************************************)
(* Sequence helpers.                                                       *)
(***************************************************************************)
Take(s, n) == SubSeq(s, 1, IF n < Len(s) THEN n ELSE Len(s))

Drop(s, n) == SubSeq(s, n + 1, Len(s))

Repeat(b, n) == [i \in 1..n |-> b]

IsPrefix(p, s) == Len(p) <= Len(s) /\ SubSeq(s, 1, Len(p)) = p

(***************************************************************************)
(* The codec.  zstd::Encoder as used by the macro: new(sink, level),       *)
(* write_all(bytes), finish().                                             *)
(***************************************************************************)
Magic == <<40, 181, 47, 253>>

LevelAccepted(level) == level \in 1..22

\* block header: last-block bit, 2-bit block type, block size, little endian
BlockHeader(last, type, size) ==
    LET v == last + 2 * type + 8 * size
    IN <<v % 256, (v \div 256) % 256, (v \div 65536) % 256>>

RunLen(s) ==
    LET same == {n \in 1..Len(s) : \A i \in 1..n : s[i] = s[1]}
    IN CHOOSE n \in same : \A m \in same : m <= n

\* fast levels store the input as one raw block
RawBlocks(s) == BlockHeader(1, 0, Len(s)) \o s

\* strong levels turn every run of two or more equal bytes into an RLE block
RECURSIVE RleBlocks(_)
RleBlocks(s) ==
    IF s = <<>> THEN BlockHeader(1, 0, 0)
    ELSE LET n == RunLen(s)
             rest == Drop(s, n)
             last == IF rest = <<>> THEN 1 ELSE 0
             block == IF n >= 2 THEN BlockHeader(last, 1, n) \o <<s[1]>>
                      ELSE BlockHeader(last, 0, 1) \o <<s[1]>>
         IN IF rest = <<>> THEN block ELSE block \o RleBlocks(rest)

EncoderNew(sink, level) ==
    IF LevelAccepted(level)
    THEN [ok |-> TRUE, enc |-> [level |-> level, input |-> <<>>, sink |-> sink]]
    ELSE [ok |-> FALSE, enc |-> [level |-> level, input |-> <<>>, sink |-> sink]]

EncoderWriteAll(enc, bytes, fault) ==
    [ok |-> ~fault, enc |-> [enc EXCEPT !.input = enc.input \o bytes]]

EncoderFinish(enc, fault) ==
    [ok |-> ~fault,
     sink |-> enc.sink \o Magic
              \o (IF enc.level < 10 THEN RawBlocks(enc.input) ELSE RleBlocks(enc.input))]

(***************************************************************************)
(* ruzstd::StreamingDecoder as used by the container: new(source) reads    *)
(* the frame header, read() decodes block after block.                     *)
(***************************************************************************)
DecoderNew(src) ==
    IF IsPrefix(Magic, src)
    THEN [ok |-> TRUE, pos |-> Len(Magic) + 1, finished |-> FALSE]
    ELSE [ok |-> FALSE, pos |-> 1, finished |-> FALSE]

\* one block: [ok, pos, finished, data]
DecodeBlock(src, pos) ==
    LET bad == [ok |-> FALSE, pos |-> pos, finished |-> FALSE, data |-> <<>>]
    IN IF pos + 2 > Len(src) THEN bad
       ELSE LET v == src[pos] + 256 * src[pos + 1] + 65536 * src[pos + 2]
                last == v % 2
                type == (v \div 2) % 4
                size == v \div 8
                body == pos + 3
            IN CASE type = 0 ->
                      IF body + size - 1 > Len(src) THEN bad
                      ELSE [ok |-> TRUE, pos |-> body + size, finished |-> last = 1,
                            data |-> SubSeq(src, body, body + size - 1)]
                 [] type = 1 ->
                      IF body > Len(src) THEN bad
                      ELSE [ok |-> TRUE, pos |-> body + 1, finished |-> last = 1,
                            data |-> Repeat(src[body], size)]
                 [] OTHER -> bad

(***************************************************************************)
(* Vec<u8> and Box<[u8]>: a vector is its elements and its capacity, a     *)
(* boxed slice is the elements alone.                                      *)
(***************************************************************************)
VecNew == [elems |-> <<>>, cap |-> 0]

VecExtend(v, data) ==
    LET n == Len(v.elems) + Len(data)
        grown == IF 2 * v.cap > n THEN 2 * v.cap ELSE IF n > 8 THEN n ELSE 8
    IN [elems |-> v.elems \o data, cap |-> IF n <= v.cap THEN v.cap ELSE grown]

into_boxed_slice(v) == [elems |-> v.elems]

\* Read::read_to_end over the decoder: [ok, vec]
RECURSIVE read_to_end(_, _, _)
read_to_end(src, pos, buf) ==
    LET b == DecodeBlock(src, pos)
    IN IF ~b.ok THEN [ok |-> FALSE, vec |-> buf]
       ELSE IF b.finished THEN [ok |-> TRUE, vec |-> VecExtend(buf, b.data)]
       ELSE read_to_end(src, b.pos, VecExtend(buf, b.data))

(***************************************************************************)
(* The container, src/lib.rs.                                              *)
(***************************************************************************)
\* the type EmbeddedZstd<SIZE> is inhabited by arrays of exactly SIZE bytes
WellTyped(SIZE, data) == Len(data) = SIZE /\ \A i \in 1..Len(data) : data[i] \in 0..255

new_unchecked(SIZE, data) == [SIZE |-> SIZE, data |-> data]

\* #[derive(Clone, Copy)]
Copy(self) == [SIZE |-> self.SIZE, data |-> [i \in 1..Len(self.data) |-> self.data[i]]]

\* a panic unwinds out of the conversion: nothing is returned to the caller
Panicked == [kind |-> "panic", elems |-> <<>>, cap |-> 0]

\* impl From<EmbeddedZstd<SIZE>> for Vec<u8>
FromVec(value) ==
    LET dec == DecoderNew(value.data)
    IN IF ~dec.ok THEN Panicked
       ELSE LET r == read_to_end(value.data, dec.pos, VecNew)
            IN IF ~r.ok THEN Panicked
               ELSE [kind |-> "ok", elems |-> r.vec.elems, cap |-> r.vec.cap]

\* a failed decode gives an empty slice
FromBox_or_default(value) ==
    LET v == FromVec(value)
    IN [kind |-> "ok", elems |-> into_boxed_slice(v).elems]

\* impl From<EmbeddedZstd<SIZE>> for Box<[u8]>
FromBox(value) ==
    LET v == FromVec(value)
    IN IF v.kind = "panic" THEN [kind |-> "panic", elems |-> <<>>]
       ELSE [kind |-> "ok", elems |-> into_boxed_slice(v).elems]

\* the length of the decompressed data
size_decompressed(self) == Len(FromVec(self).elems)

\* pub const fn size(&self) -> usize
size(self) == self.SIZE

\* equality of what the two instances decompress to
eq_decompressed(a, b) == FromVec(a).elems = FromVec(b).elems

\* #[derive(PartialEq)]: the arrays are compared element by element
RECURSIVE ArrayEq(_, _, _)
ArrayEq(x, y, i) ==
    IF i > Len(x) THEN TRUE
    ELSE IF x[i] # y[i] THEN FALSE
    ELSE ArrayEq(x, y, i + 1)

eq(a, b) == ArrayEq(a.data, b.data, 1)

(***************************************************************************)
(* Strings: sequences of one-character strings.                            *)
(***************************************************************************)
Digits == <<"0", "1", "2", "3", "4", "5", "6", "7", "8", "9">>

DigitSet == {Digits[i] : i \in 1..10}

DigitVal(c) == (CHOOSE i \in 1..10 : Digits[i] = c) - 1

IdentStart ==
    {"a", "b", "c", "d", "e", "f", "g", "h", "i", "j", "k", "l", "m", "n", "o", "p", "q",
     "r", "s", "t", "u", "v", "w", "x", "y", "z", "E", "Z", "_"}

\* the byte printed as an i8
RECURSIVE to_string_i8(_)
to_string_i8(n) ==
    IF n >= 128 THEN <<"-">> \o to_string_i8(256 - n)
    ELSE IF n < 10 THEN <<Digits[n + 1]>>
    ELSE to_string_i8(n \div 10) \o <<Digits[(n % 10) + 1]>>

\* ToString for an unsigned integer (u8::to_string, usize's Display)
RECURSIVE to_string(_)
to_string(n) ==
    IF n < 10 THEN <<Digits[n + 1]>>
    ELSE to_string(n \div 10) \o <<Digits[(n % 10) + 1]>>

\* [String]::join(sep)
RECURSIVE join_strings(_, _)
join_strings(strs, sep) ==
    IF strs = <<>> THEN <<>>
    ELSE IF Len(strs) = 1 THEN strs[1]
    ELSE strs[1] \o sep \o join_strings(Tail(strs), sep)

(***************************************************************************)
(* Paths (PathBuf on a Unix host).                                         *)
(***************************************************************************)
is_relative(path) == path = <<>> \/ path[1] # "/"

\* PathBuf::join: an absolute argument replaces the base
path_join(base, path) ==
    IF ~is_relative(path) THEN path
    ELSE IF base # <<>> /\ base[Len(base)] = "/" THEN base \o path
    ELSE base \o <<"/">> \o path

(***************************************************************************)
(* The build environment the macro runs in.                                *)
(***************************************************************************)
ManifestDir == <<"/", "p">>

RelPath == <<"f">>

AbsPath == <<"/", "a">>

MissingPath == <<"g">>

PathLits == {RelPath, AbsPath, MissingPath}

\* the level literal: accepted fast and strong levels, a level the codec
\* rejects, and a literal that is no i32
LevelLits ==
    {<<"1">>, <<"1", "9">>, <<"2", "3">>,
     <<"2", "1", "4", "7", "4", "8", "3", "6", "4", "8">>}

\* env::var("CARGO_MANIFEST_DIR")
Envs == {[set |-> TRUE, val |-> ManifestDir], [set |-> FALSE, val |-> <<>>]}

\* proc_macro_crate::crate_name("include-zstd")
CrateLookups ==
    {[kind |-> "Itself", name |-> <<>>],
     [kind |-> "Name", name |-> <<"i", "z">>],
     [kind |-> "Err", name |-> <<>>]}

\* where the codec reports an error, if anywhere
Faults == {"none", "write", "finish"}

NoFile == [exists |-> FALSE, bytes |-> <<>>]

AbsContent == <<255, 7>>

\* the file system: one file below the manifest directory, one elsewhere
FileSystem(c) ==
    [p \in {path_join(ManifestDir, RelPath), AbsPath} |->
        IF p = AbsPath THEN [exists |-> TRUE, bytes |-> AbsContent]
        ELSE [exists |-> TRUE, bytes |-> c]]

\* fs::read
fs_read(fs, path) == IF path \in DOMAIN fs THEN fs[path] ELSE NoFile

(***************************************************************************)
(* include_zstd_inner, macro/src/lib.rs.  Every unwrap() that fails        *)
(* panics, which aborts the expansion with nothing emitted.                *)
(***************************************************************************)
\* LitInt::base10_parse::<i32>: the digits are folded with a checked
\* multiply-and-add, a value above i32::MAX is an error
RECURSIVE ParseI32(_, _, _)
ParseI32(digs, i, acc) ==
    IF i > Len(digs) THEN [ok |-> TRUE, val |-> acc]
    ELSE IF acc > (2147483647 - DigitVal(digs[i])) \div 10 THEN [ok |-> FALSE, val |-> 0]
    ELSE ParseI32(digs, i + 1, 10 * acc + DigitVal(digs[i]))

base10_parse(lit) == ParseI32(lit, 1, 0)

\* a panic: the expansion fails after reading `reads`, with no tokens
Aborted(reads) ==
    [outcome |-> "abort", reads |-> reads, content |-> <<>>,
     compressed |-> <<>>, tokens |-> <<>>]

\* the strings are concatenated: an absolute path is not kept
ResolvePath_concat(path, manifest_dir) == manifest_dir \o <<"/">> \o path

\* lines 39-43
ResolvePath(path, manifest_dir) ==
    IF is_relative(path) THEN path_join(manifest_dir, path) ELSE path

\* the encoder is dropped without finish(): the frame is never written out
Compress_unfinished(bytes, compression_level, fault) ==
    LET e == EncoderNew(<<>>, compression_level)
        w == EncoderWriteAll(e.enc, bytes, fault = "write")
    IN IF ~e.ok \/ ~w.ok THEN [ok |-> FALSE, compressed_bytes |-> <<>>]
       ELSE [ok |-> TRUE, compressed_bytes |-> w.enc.sink]

\* lines 46-49: the compressed stream, or the failure of the encoder
Compress(bytes, compression_level, fault) ==
    LET e == EncoderNew(<<>>, compression_level)
        w == EncoderWriteAll(e.enc, bytes, fault = "write")
        f == EncoderFinish(w.enc, fault = "finish")
    IN IF ~e.ok \/ ~w.ok \/ ~f.ok THEN [ok |-> FALSE, compressed_bytes |-> <<>>]
       ELSE [ok |-> TRUE, compressed_bytes |-> f.sink]

UNSAFE_OPEN == <<"u", "n", "s", "a", "f", "e", " ", "{", " ">>

EMBEDDED == <<":", ":", "E", "m", "b", "e", "d", "d", "e", "d", "Z", "s", "t", "d", ":", ":", "<">>

NEW_UNCHECKED == <<">", ":", ":", "n", "e", "w", "_", "u", "n", "c", "h", "e", "c", "k", "e", "d", "(">>

CLOSE == <<")", " ", "}">>

INCLUDE_ZSTD == <<"i", "n", "c", "l", "u", "d", "e", "_", "z", "s", "t", "d">>

ByteList(compressed_bytes) ==
    <<"[">> \o join_strings([i \in 1..Len(compressed_bytes) |-> to_string(compressed_bytes[i])],
                            <<",">>)
    \o <<"]">>

\* a one-byte tag, the length of the crate name, is put in front of the stream
Format_tagged(crate_name, compressed_bytes_len, compressed_bytes) ==
    UNSAFE_OPEN \o crate_name
    \o EMBEDDED \o to_string(compressed_bytes_len + 1)
    \o NEW_UNCHECKED \o ByteList(<<Len(crate_name)>> \o compressed_bytes) \o CLOSE

\* lines 59-68: the format! string
Format(crate_name, compressed_bytes_len, compressed_bytes) ==
    UNSAFE_OPEN \o crate_name
    \o EMBEDDED \o to_string(compressed_bytes_len)
    \o NEW_UNCHECKED \o ByteList(compressed_bytes) \o CLOSE

\* crate_name(..) falls back to the library's own name
CrateName_or_default(lookup) ==
    [ok |-> TRUE, name |-> IF lookup.kind = "Name" THEN lookup.name ELSE INCLUDE_ZSTD]

\* lines 53-57: crate_name(..).unwrap(), then the match on FoundCrate
CrateName(lookup) ==
    [ok |-> lookup.kind # "Err",
     name |-> IF lookup.kind = "Itself" THEN INCLUDE_ZSTD ELSE lookup.name]

include_zstd_inner(path, level, env, fs, lookup, fault) ==
    LET compression_level == base10_parse(level)
        full == ResolvePath(path, env.val)
        file == fs_read(fs, full)
        c == Compress(file.bytes, compression_level.val, fault)
        crate_name == CrateName(lookup)
    IN IF ~compression_level.ok \/ ~env.set THEN Aborted(<<>>)
       ELSE IF ~file.exists THEN Aborted(<<full>>)
       ELSE IF ~c.ok \/ ~crate_name.ok THEN Aborted(<<full>>)
       ELSE [outcome |-> "emit", reads |-> <<full>>, content |-> file.bytes,
             compressed |-> c.compressed_bytes,
             tokens |-> Format(crate_name.name, Len(c.compressed_bytes),
                               c.compressed_bytes)]

(***************************************************************************)
(* The emitted string is parsed into tokens (line 69) and the compiler     *)
(* type-checks and evaluates the expression at the macro's call site.      *)
(***************************************************************************)
RECURSIVE DecValue(_)
DecValue(digs) ==
    IF digs = <<>> THEN 0
    ELSE 10 * DecValue(SubSeq(digs, 1, Len(digs) - 1)) + DigitVal(digs[Len(digs)])

\* the end of the run of characters of `set` that starts at i
RECURSIVE RunEnd(_, _, _)
RunEnd(text, i, set) ==
    IF i < Len(text) /\ text[i + 1] \in set THEN RunEnd(text, i + 1, set) ELSE i

RECURSIVE Lex(_, _)
Lex(text, i) ==
    IF i > Len(text) THEN <<>>
    ELSE IF text[i] = " " THEN Lex(text, i + 1)
    ELSE IF text[i] \in DigitSet THEN
        LET j == RunEnd(text, i, DigitSet)
        IN <<[t |-> "int", v |-> DecValue(SubSeq(text, i, j)), s |-> <<>>]>>
           \o Lex(text, j + 1)
    ELSE IF text[i] \in IdentStart THEN
        LET j == RunEnd(text, i, IdentStart \cup DigitSet)
        IN <<[t |-> "id", v |-> 0, s |-> SubSeq(text, i, j)]>> \o Lex(text, j + 1)
    ELSE <<[t |-> "p", v |-> 0, s |-> <<text[i]>>]>> \o Lex(text, i + 1)

KW_UNSAFE == <<"u", "n", "s", "a", "f", "e">>

EMBEDDED_ZSTD == <<"E", "m", "b", "e", "d", "d", "e", "d", "Z", "s", "t", "d">>

KW_NEW_UNCHECKED == <<"n", "e", "w", "_", "u", "n", "c", "h", "e", "c", "k", "e", "d">>

Punct(c) == [t |-> "p", v |-> 0, s |-> <<c>>]

Ident(name) == [t |-> "id", v |-> 0, s |-> name]

\* the expression  unsafe { C::EmbeddedZstd::<N>::new_unchecked([b, ...]) }
\* read back: [ok, crate, N, array]
ParseExpr(toks) ==
    LET n == Len(toks)
        bad == [ok |-> FALSE, crate |-> <<>>, N |-> 0, array |-> <<>>]
        items == SubSeq(toks, 17, n - 3)
        shape ==
            /\ n >= 19
            /\ toks[1] = Ident(KW_UNSAFE) /\ toks[2] = Punct("{")
            /\ toks[3].t = "id"
            /\ toks[4] = Punct(":") /\ toks[5] = Punct(":")
            /\ toks[6] = Ident(EMBEDDED_ZSTD)
            /\ toks[7] = Punct(":") /\ toks[8] = Punct(":") /\ toks[9] = Punct("<")
            /\ toks[10].t = "int" /\ toks[11] = Punct(">")
            /\ toks[12] = Punct(":") /\ toks[13] = Punct(":")
            /\ toks[14] = Ident(KW_NEW_UNCHECKED)
            /\ toks[15] = Punct("(") /\ toks[16] = Punct("[")
            /\ toks[n - 2] = Punct("]") /\ toks[n - 1] = Punct(")")
            /\ toks[n] = Punct("}")
            /\ Len(items) = 0 \/ Len(items) % 2 = 1
            /\ \A k \in 1..Len(items) :
                  IF k % 2 = 1 THEN items[k].t = "int" ELSE items[k] = Punct(",")
    IN IF ~shape THEN bad
       ELSE [ok |-> TRUE, crate |-> toks[3].s, N |-> toks[10].v,
             array |-> [k \in 1..((Len(items) + 1) \div 2) |-> items[2 * k - 1].v]]

NoInst == [some |-> FALSE, SIZE |-> 0, data |-> <<>>]

\* the crate names under which the caller can reach the library
KnownCrates == {INCLUDE_ZSTD, <<"i", "z">>}

\* the value of the expansion in the compiled program, if it compiles
Compile(tokens) ==
    LET e == ParseExpr(Lex(tokens, 1))
    IN IF tokens = <<>> \/ ~e.ok \/ e.crate \notin KnownCrates \/ ~WellTyped(e.N, e.array)
       THEN NoInst
       ELSE [some |-> TRUE] @@ new_unchecked(e.N, e.array)

(***************************************************************************)
(* State.  files: the file system at build time.  site: the call           *)
(* include_zstd!(path, level) in the program's text.  inv: its latest      *)
(* expansion (the environment it ran in, what it read and emitted, and the *)
(* constant the compiled program holds for it).  prev: the constant of the *)
(* latest earlier expansion that emitted, kept while the file it read is   *)
(* not edited.  res: the result of the latest run-time operation on these  *)
(* constants.                                                              *)
(***************************************************************************)
NoInv ==
    [env |-> [set |-> FALSE, val |-> <<>>],
     lookup |-> [kind |-> "Err", name |-> <<>>], fault |-> "none",
     outcome |-> "none", reads |-> <<>>, content |-> <<>>, compressed |-> <<>>,
     tokens |-> <<>>, inst |-> NoInst]

NoPrev ==
    [some |-> FALSE, read |-> <<>>, content |-> <<>>, crate |-> "Err", inst |-> NoInst]

\* the file an expansion read still has the content it read
Unedited(fs, read, content) == fs_read(fs, read).bytes = content

NoRes == [op |-> "none", kind |-> "none", elems |-> <<>>, val |-> FALSE]

InitBuild ==
    /\ \E c \in Contents : files = FileSystem(c)
    /\ \E path \in PathLits, level \in LevelLits : site = [path |-> path, level |-> level]
    /\ inv = NoInv
    /\ prev = NoPrev
    /\ res = NoRes

\* one expansion of the call include_zstd!(site.path, site.level)
Expand ==
    \E env \in Envs, lookup \in CrateLookups, fault \in Faults :
        LET r == include_zstd_inner(site.path, site.level, env, files, lookup, fault)
        IN /\ inv' = [env |-> env, lookup |-> lookup,
                      fault |-> fault, outcome |-> r.outcome, reads |-> r.reads,
                      content |-> r.content, compressed |-> r.compressed,
                      tokens |-> r.tokens, inst |-> Compile(r.tokens)]
           /\ prev' = IF inv.inst.some /\ Unedited(files, inv.reads[1], inv.content)
                      THEN [some |-> TRUE, read |-> inv.reads[1], content |-> inv.content,
                            crate |-> inv.lookup.kind, inst |-> inv.inst]
                      ELSE prev
           /\ res' = NoRes
           /\ UNCHANGED <<files, site>>

\* the source file is edited between two builds
ModifyFile ==
    /\ \E c \in Contents : files' = FileSystem(c)
    /\ files' # files
    /\ prev' = IF prev.some /\ ~Unedited(files', prev.read, prev.content) THEN NoPrev ELSE prev
    /\ UNCHANGED <<site, inv, res>>

\* let v: Vec<u8> = CONST.into()
Decompress ==
    /\ inv.inst.some
    /\ LET v == FromVec(inv.inst)
       IN res' = [op |-> "vec", kind |-> v.kind, elems |-> v.elems, val |-> FALSE]
    /\ UNCHANGED <<files, site, inv, prev>>

\* let b: Box<[u8]> = CONST.into()
DecompressBox ==
    /\ inv.inst.some
    /\ LET b == FromBox(inv.inst)
       IN res' = [op |-> "box", kind |-> b.kind, elems |-> b.elems, val |-> FALSE]
    /\ UNCHANGED <<files, site, inv, prev>>

\* CONST == OTHER, which type-checks when both have the same SIZE
Compare ==
    /\ inv.inst.some /\ prev.some
    /\ inv.inst.SIZE = prev.inst.SIZE
    /\ res' = [op |-> "eq", kind |-> "ok", elems |-> <<>>, val |-> eq(inv.inst, prev.inst)]
    /\ UNCHANGED <<files, site, inv, prev>>

buildVars == <<files, site, inv, prev, res>>

runVars == <<insts, out>>

concVars == <<shared, thr, bufs>>

EmptyInst == new_unchecked(0, <<>>)

NoOut == [op |-> "none", a |-> 0, b |-> 0, kind |-> "none", elems |-> <<>>, n |-> 0,
          val |-> FALSE]

IdleThread == [pc |-> "idle", value |-> EmptyInst, pos |-> 0]

InitRunIdle == insts = [s \in 1..2 |-> EmptyInst] /\ out = NoOut

InitConcIdle ==
    /\ shared = EmptyInst
    /\ thr = [t \in 1..NThreads |-> IdleThread]
    /\ bufs = [t \in 1..NThreads |-> VecNew]

Init == InitBuild /\ InitRunIdle /\ InitConcIdle

Next ==
    \/ Expand /\ UNCHANGED <<runVars, concVars>>
    \/ ModifyFile /\ UNCHANGED <<runVars, concVars>>
    \/ Decompress /\ UNCHANGED <<runVars, concVars>>
    \/ DecompressBox /\ UNCHANGED <<runVars, concVars>>
    \/ Compare /\ UNCHANGED <<runVars, concVars>>

Spec == Init /\ [][Next]_vars

(***************************************************************************)
(* The container on its own: a program that builds instances from byte     *)
(* arrays through new_unchecked and uses them.  insts: two bindings of the *)
(* same SIZE-generic code, out: the result of the latest operation.        *)
(***************************************************************************)
\* longest all-zero array
ZeroLen == 8

\* what the macro emits for the files of the model
Streams == {Compress(c, l, "none").compressed_bytes : c \in Contents, l \in {1, 19}}

\* the arrays handed to new_unchecked: emitted streams, streams cut short,
\* all-zero arrays, a second encoding of a one-byte file, a reserved block
\* type and a frame whose only block is not the last
ArrayData ==
    Streams
    \cup {Take(s, Len(s) - 1) : s \in Streams}
    \cup {Repeat(0, n) : n \in 0..ZeroLen}
    \cup {Magic \o BlockHeader(1, 1, 1) \o <<b>> : b \in ByteVals}
    \cup {Magic \o BlockHeader(1, 2, 0), Magic \o BlockHeader(0, 0, 0)}

\* let x = unsafe { EmbeddedZstd::new_unchecked([...]) }: SIZE is the array's length
NewUnchecked ==
    \E s \in 1..2, d \in ArrayData :
        /\ insts' = [insts EXCEPT ![s] = new_unchecked(Len(d), d)]
        /\ out' = NoOut

Size ==
    \E s \in 1..2 :
        /\ out' = [NoOut EXCEPT !.op = "size", !.a = s, !.n = size(insts[s])]
        /\ UNCHANGED insts

\* let y = x
CopyInst ==
    \E s \in 1..2, d \in 1..2 :
        /\ s # d
        /\ insts' = [insts EXCEPT ![d] = Copy(insts[s])]
        /\ out' = [NoOut EXCEPT !.op = "copy", !.a = s, !.b = d]

\* x == y
Eq ==
    \E s \in 1..2, d \in 1..2 :
        /\ insts[s].SIZE = insts[d].SIZE
        /\ out' = [NoOut EXCEPT !.op = "eq", !.a = s, !.b = d,
                                !.val = eq(insts[s], insts[d])]
        /\ UNCHANGED insts

\* Vec::<u8>::from(x)
IntoVec ==
    \E s \in 1..2 :
        LET v == FromVec(insts[s])
        IN /\ out' = [NoOut EXCEPT !.op = "vec", !.a = s, !.kind = v.kind,
                                   !.elems = v.elems]
           /\ UNCHANGED insts

\* Box::<[u8]>::from(x)
IntoBox ==
    \E s \in 1..2 :
        LET b == FromBox(insts[s])
        IN /\ out' = [NoOut EXCEPT !.op = "box", !.a = s, !.kind = b.kind,
                                   !.elems = b.elems]
           /\ UNCHANGED insts

InitRun ==
    /\ files = FileSystem(<<>>) /\ site = [path |-> RelPath, level |-> <<"1">>]
    /\ inv = NoInv /\ prev = NoPrev /\ res = NoRes
    /\ InitRunIdle
    /\ InitConcIdle

NextRun ==
    \/ NewUnchecked /\ UNCHANGED <<buildVars, concVars>>
    \/ Size /\ UNCHANGED <<buildVars, concVars>>
    \/ CopyInst /\ UNCHANGED <<buildVars, concVars>>
    \/ Eq /\ UNCHANGED <<buildVars, concVars>>
    \/ IntoVec /\ UNCHANGED <<buildVars, concVars>>
    \/ IntoBox /\ UNCHANGED <<buildVars, concVars>>

RunSpec == InitRun /\ [][NextRun]_vars

(***************************************************************************)
(* Threads converting the same instance.  From::from takes the instance    *)
(* by value (it is Copy), creates its decoder and its buffer (lines 68,    *)
(* 69) and reads block after block (line 71).  A thread may be preempted   *)
(* between any two of these steps.                                         *)
(***************************************************************************)
\* one buffer for all calls
BufOf_shared(t) == 1

\* the buffer thread t fills: `let mut buf = Vec::new()` is a local of the call
BufOf(t) == t

ThreadCall(t) ==
    /\ thr[t].pc \in {"idle", "done"}
    /\ thr' = [thr EXCEPT ![t] = [pc |-> "new", value |-> Copy(shared), pos |-> 0]]
    /\ UNCHANGED <<shared, bufs>>

ThreadNew(t) ==
    /\ thr[t].pc = "new"
    /\ LET dec == DecoderNew(thr[t].value.data)
       IN IF dec.ok
          THEN /\ thr' = [thr EXCEPT ![t].pc = "read", ![t].pos = dec.pos]
               /\ bufs' = [bufs EXCEPT ![BufOf(t)] = VecNew]
          ELSE /\ thr' = [thr EXCEPT ![t].pc = "panic"]
               /\ UNCHANGED bufs
    /\ UNCHANGED shared

ThreadRead(t) ==
    /\ thr[t].pc = "read"
    /\ LET b == DecodeBlock(thr[t].value.data, thr[t].pos)
       IN IF ~b.ok
          THEN /\ thr' = [thr EXCEPT ![t].pc = "panic"]
               /\ UNCHANGED bufs
          ELSE /\ thr' = [thr EXCEPT ![t].pc = IF b.finished THEN "done" ELSE "read",
                                     ![t].pos = b.pos]
               /\ bufs' = [bufs EXCEPT ![BufOf(t)] = VecExtend(bufs[BufOf(t)], b.data)]
    /\ UNCHANGED shared

InitConc ==
    /\ files = FileSystem(<<>>) /\ site = [path |-> RelPath, level |-> <<"1">>]
    /\ inv = NoInv /\ prev = NoPrev /\ res = NoRes
    /\ InitRunIdle
    /\ \E d \in ArrayData : shared = new_unchecked(Len(d), d)
    /\ thr = [t \in 1..NThreads |-> IdleThread]
    /\ bufs = [t \in 1..NThreads |-> VecNew]

NextConc ==
    \/ \E t \in 1..NThreads : ThreadCall(t) /\ UNCHANGED <<buildVars, runVars>>
    \/ \E t \in 1..NThreads : ThreadNew(t) /\ UNCHANGED <<buildVars, runVars>>
    \/ \E t \in 1..NThreads : ThreadRead(t) /\ UNCHANGED <<buildVars, runVars>>

ConcSpec == InitConc /\ [][NextConc]_vars

(***************************************************************************)
(* Properties.                                                             *)
(***************************************************************************)
LevelStrong == <<"1", "9">>

\* the stored bytes are a complete stream the decoder accepts
CompleteStream(data) ==
    LET dec == DecoderNew(data)
    IN dec.ok /\ read_to_end(data, dec.pos, VecNew).ok

\* C1: round trip.  Whenever an expansion emits for a file with content B,
\* the emitted expression compiles to an instance, and converting that
\* instance to Vec<u8> succeeds and yields exactly B.
C1_RoundTrip ==
    inv.outcome = "emit" =>
        /\ inv.inst.some
        /\ res.op = "vec" => (res.kind = "ok" /\ res.elems = inv.content)

\* a two-byte run compressed at a strong level (an RLE block) was decompressed
C1_Witness ==
    /\ inv.outcome = "emit" /\ site.level = LevelStrong
    /\ inv.content = <<7, 7>>
    /\ res.op = "vec" /\ res.elems = <<7, 7>>

\* C2: converting an instance whose bytes are no complete stream returns a
\* decode error to the caller.
C2_DecodeErrorReturned ==
    (out.op = "vec" /\ ~CompleteStream(insts[out.a].data)) => out.kind = "err"

\* C3: a == b holds exactly when the two arrays have the same bytes at every
\* position, whatever the instances decompress to.
C3_EqStructural ==
    out.op = "eq" =>
        LET x == insts[out.a].data
            y == insts[out.b].data
        IN out.val = (Len(x) = Len(y) /\ \A i \in 1..Len(x) : x[i] = y[i])

\* two instances of the same SIZE that decompress to the same bytes and were
\* compared unequal
C3_Witness ==
    /\ out.op = "eq" /\ ~out.val
    /\ FromVec(insts[out.a]).kind = "ok"
    /\ FromVec(insts[out.a]) = FromVec(insts[out.b])

\* C4: two expansions of the same call (same path, same level) that read the
\* same file content emit the same length N and the same bytes, so that the
\* two constants compare equal.
C4_Deterministic ==
    (prev.some /\ inv.inst.some /\ inv.content = prev.content) =>
        /\ inv.inst.SIZE = prev.inst.SIZE
        /\ inv.inst.data = prev.inst.data
        /\ res.op = "eq" => res.val

\* two such expansions that ran with different crate names, then compared
C4_Witness ==
    /\ prev.some /\ inv.inst.some /\ inv.content = prev.content
    /\ inv.lookup.kind # prev.crate
    /\ Len(inv.content) = 2
    /\ res.op = "eq"

\* C5: size() is N, and N is the number of stored bytes, for every instance
\* after any sequence of operations.
C5_SizeInvariant ==
    /\ \A s \in 1..2 : size(insts[s]) = Len(insts[s].data)
    /\ out.op = "size" => out.n = Len(insts[out.a].data)

\* size() was called on a copy of a non-empty instance
C5_Witness ==
    /\ out.op = "size" /\ out.n > 0 /\ out.a = 2
    /\ insts[1] = insts[2]

\* C6: whatever the interleaving, the stored bytes never change, a call that
\* returns holds in its own buffer what a call run alone returns, and a call
\* fails only if a call run alone fails.
C6_ConcurrentDecompress ==
    /\ [](\A t \in 1..NThreads :
            /\ thr[t].pc = "done" =>
                  (FromVec(shared).kind = "ok" /\ bufs[t].elems = FromVec(shared).elems)
            /\ thr[t].pc = "panic" => FromVec(shared).kind = "panic")
    /\ [][shared' = shared]_vars

\* one call has returned a two-block stream while another is between blocks
C6_Witness ==
    /\ thr[1].pc = "done" /\ Len(bufs[1].elems) = 2
    /\ thr[2].pc = "read" /\ Len(bufs[2].elems) = 1

\* C7: conversion to Box<[u8]> succeeds exactly when conversion to Vec<u8>
\* does, with the same bytes in the same order, and fails when it fails.
C7_BoxAgreesWithVec ==
    out.op = "box" =>
        LET v == FromVec(insts[out.a])
        IN out.kind = v.kind /\ out.elems = v.elems

\* a conversion to Box<[u8]> of an instance that does not decode
C7_Witness == out.op = "box" /\ out.kind = "panic" /\ insts[out.a].SIZE > 0

\* C8: an expansion whose file is missing, whose level the codec rejects,
\* whose compression reports an error or whose crate name cannot be resolved
\* aborts, emits no tokens and leaves no instance.
C8_FailuresAbort ==
    LET lvl == base10_parse(site.level)
        missing == ~fs_read(files, ResolvePath(site.path, inv.env.val)).exists
    IN (inv.outcome # "none"
        /\ (missing \/ ~lvl.ok \/ ~LevelAccepted(lvl.val) \/ inv.fault # "none"
            \/ inv.lookup.kind = "Err"))
       => (inv.outcome = "abort" /\ inv.tokens = <<>> /\ ~inv.inst.some)

\* the crate name is the only thing that failed, after the file was read
C8_Witness ==
    /\ inv.outcome = "abort" /\ inv.lookup.kind = "Err"
    /\ inv.env.set /\ inv.fault = "none" /\ Len(inv.reads) = 1
    /\ site.path = RelPath /\ site.level = LevelStrong

\* C9: the emitted expression reads back as N and an array of N literals,
\* which are the bytes of the finished stream, in order, each in 0..255.
C9_EmittedConsistent ==
    inv.outcome = "emit" =>
        LET e == ParseExpr(Lex(inv.tokens, 1))
        IN /\ e.ok
           /\ e.N = Len(e.array)
           /\ e.array = inv.compressed
           /\ \A i \in 1..Len(e.array) : e.array[i] \in 0..255
           /\ inv.compressed
                = Compress(inv.content, base10_parse(site.level).val, "none").compressed_bytes

\* a stream with one-, two- and three-digit bytes was emitted
C9_Witness ==
    /\ inv.outcome = "emit"
    /\ \E i, j, k \in 1..Len(inv.compressed) :
          inv.compressed[i] < 10 /\ inv.compressed[j] \in 10..99 /\ inv.compressed[k] >= 100

ExpectedFile ==
    IF site.path # <<>> /\ site.path[1] = "/" THEN site.path
    ELSE ManifestDir \o <<"/">> \o site.path

\* C10 as stated: every expansion reads exactly one file, the path itself if
\* it is absolute and CARGO_MANIFEST_DIR joined with it otherwise.
C10_ExactlyOneRead ==
    inv.outcome # "none" => inv.reads = <<ExpectedFile>>

\* C10 amended: an expansion whose level literal is an i32 and whose
\* CARGO_MANIFEST_DIR is set reads exactly that one file; any other
\* expansion aborts before the read and reads no file.
C10_PathResolution ==
    inv.outcome # "none" =>
        IF base10_parse(site.level).ok /\ inv.env.set
        THEN inv.reads = <<ExpectedFile>>
        ELSE inv.reads = <<>>

\* an absolute path was read as given, and the expansion emitted
C10_Witness ==
    /\ inv.outcome = "emit" /\ site.path = AbsPath
    /\ inv.reads = <<AbsPath>> /\ inv.content = AbsContent

====
